---- MODULE Spec2Model ----
(***************************************************************************)
(* Session engine of the segee command line interface                      *)
(* (src/segee_cli/main.py): the command parser parse_command, the          *)
(* interactive loop interactive_mode, the menu select_tree_type, the help  *)
(* overlay display_help_screen and the entry point main.                   *)
(*                                                                         *)
(* Text is modelled as text: an input line is a sequence of one-character  *)
(* strings, split into tokens as str.split does; numbers are parsed digit  *)
(* by digit as int() does and printed digit by digit as str() does; every  *)
(* message is built by concatenation as the f-strings build it.            *)
(*                                                                         *)
(* The segment tree classes (package segee) are not part of the sources    *)
(* under src/; the tree is modelled from section 6 of the specification:   *)
(* a container of fixed length 16 with point get/set and a range aggregate.*)
(***************************************************************************)
EXTENDS Integers, Sequences, FiniteSets, TLC

(***************************************************************************)
(* Bounds of the model and constants of the program.                       *)
(***************************************************************************)
\* Number of command lines read at the interactive prompt in one run (Spec).
MaxTurns == 2

\* Number of command lines read in one run of the calculator runs (SpecCalc).
CalcTurns == 3

\* Number of command lines read in one run of the scenarios (SpecScenario).
ScenarioTurns == 5

\* Number of command lines read in one run of the parser runs (SpecParse).
ParseTurns == 2

\* Number of command lines read in one run of the drawing runs (SpecDraw).
DrawTurns == 3

\* Number of command lines read in one run with a failing tree (SpecFault).
FaultTurns == 2

\* Number of command lines read in one run of the long sessions (SpecPanel).
PanelTurns == 11

\* interactive_mode: tree = tree_class(16)
TreeSize == 16

(***************************************************************************)
(* Values: Python int, and the floats inf, -inf and nan (the only floats   *)
(* the program can produce: parse_value makes inf and -inf, and their sum  *)
(* is nan).  A Python int has no width: it is kept as hi * Base + n with   *)
(* |n| < Base and hi, n of the same sign, so that literals and sums longer *)
(* than a machine word keep their digits.                                  *)
(***************************************************************************)
\* the radix of the two-limb integers: 10^8
Base == 10000 * 10000

\* the int hi * Base + n, limbs as given
Wide(hi, n) == [kind |-> "int", n |-> n, hi |-> hi]

\* the int h * Base + l in normal form
Norm(h, l) ==
  LET q == IF l >= 0 THEN l \div Base ELSE -((-l) \div Base)
      r == l - q * Base
      h1 == h + q
  IN IF h1 > 0 /\ r < 0 THEN Wide(h1 - 1, r + Base)
     ELSE IF h1 < 0 /\ r > 0 THEN Wide(h1 + 1, r - Base)
     ELSE Wide(h1, r)

Fin(n) == Norm(0, n)

PosInf == [kind |-> "inf", n |-> 0, hi |-> 0]

NegInf == [kind |-> "-inf", n |-> 0, hi |-> 0]

NaN == [kind |-> "nan", n |-> 0, hi |-> 0]

\* Python a + b on these values (IEEE 754 for the floats).
PyAdd(a, b) ==
  IF a.kind = "int" /\ b.kind = "int" THEN Norm(a.hi + b.hi, a.n + b.n)
  ELSE IF a.kind = "nan" \/ b.kind = "nan" THEN NaN
  ELSE IF a.kind = "int" THEN b
  ELSE IF b.kind = "int" THEN a
  ELSE IF a.kind = b.kind THEN a
  ELSE NaN

\* Python a < b; every comparison with nan is False.
PyLt(a, b) ==
  IF a.kind = "nan" \/ b.kind = "nan" THEN FALSE
  ELSE IF a.kind = "int" /\ b.kind = "int"
    THEN a.hi < b.hi \/ (a.hi = b.hi /\ a.n < b.n)
  ELSE IF a.kind = b.kind THEN FALSE
  ELSE a.kind = "-inf" \/ b.kind = "inf"

DigitChars == <<"0", "1", "2", "3", "4", "5", "6", "7", "8", "9">>

RECURSIVE NatStr(_)
NatStr(n) ==
  IF n < 10 THEN DigitChars[n + 1]
  ELSE NatStr(n \div 10) \o DigitChars[(n % 10) + 1]

\* str(n) for a Python int of one limb
IntStr(n) == IF n < 0 THEN "-" \o NatStr(-n) ELSE NatStr(n)

\* the digits of a low limb under a high limb: zeros to the left
RECURSIVE ZeroPad(_, _)
ZeroPad(digits, width) ==
  IF Len(digits) >= width THEN digits ELSE ZeroPad("0" \o digits, width)

\* str(n) for a Python int
WideStr(v) ==
  IF v.hi = 0 THEN IntStr(v.n)
  ELSE (IF v.hi < 0 THEN "-" ELSE "")
       \o NatStr(IF v.hi < 0 THEN -v.hi ELSE v.hi)
       \o ZeroPad(NatStr(IF v.n < 0 THEN -v.n ELSE v.n), 8)

\* str(value): decimal digits for an int, "inf", "-inf", "nan" for the floats
PyStr(v) == IF v.kind = "int" THEN WideStr(v) ELSE v.kind

(***************************************************************************)
(* The aggregate structure (package segee, outside src/), modelled from    *)
(* the specification: fixed length, elements start at 0, point access,     *)
(* and the variant's aggregate over a half-open range.                     *)
(***************************************************************************)
\* tree_class(16): a structure of TreeSize elements, all 0
NewTree == [i \in 0..(TreeSize - 1) |-> Fin(0)]

\* the tree while no interactive_mode call is active
NoTree == <<>>

\* len(tree)
TreeLen(t) == Cardinality(DOMAIN t)

\* tree[index]
TreeGet(t, index) == t[index]

\* tree[index] = value
TreeSet(t, index, value) == [t EXCEPT ![index] = value]

\* the binary operation of a variant
Combine(variant, a, b) ==
  CASE variant = "sum" -> PyAdd(a, b)
    [] variant = "min" -> (IF PyLt(b, a) THEN b ELSE a)
    [] variant = "max" -> (IF PyLt(a, b) THEN b ELSE a)

\* the identity of a variant
Identity(variant) ==
  CASE variant = "sum" -> Fin(0)
    [] variant = "min" -> PosInf
    [] variant = "max" -> NegInf

\* rangeAggregate(left, right) over [left, right), folded left to right
RECURSIVE RangeAggregate(_, _, _, _)
RangeAggregate(variant, t, left, right) ==
  IF left >= right THEN Identity(variant)
  ELSE IF left + 1 = right THEN TreeGet(t, left)
  ELSE Combine(variant, RangeAggregate(variant, t, left, right - 1),
               TreeGet(t, right - 1))

(***************************************************************************)
(* Text helpers: str.strip, str.split, str.lower, int().                   *)
(***************************************************************************)
\* the text of a sequence of characters
RECURSIVE Implode(_)
Implode(cs) == IF cs = <<>> THEN "" ELSE Head(cs) \o Implode(Tail(cs))

IsSpace(c) == c \in {" ", "\t"}

\* not cmd.strip()
IsBlank(cs) == \A i \in 1..Len(cs) : IsSpace(cs[i])

\* cmd.strip().split(): the maximal runs of non-space characters
RECURSIVE SplitFrom(_, _, _)
SplitFrom(cs, cur, acc) ==
  IF cs = <<>> THEN (IF cur = <<>> THEN acc ELSE Append(acc, cur))
  ELSE IF IsSpace(Head(cs))
    THEN SplitFrom(Tail(cs), <<>>, IF cur = <<>> THEN acc ELSE Append(acc, cur))
  ELSE SplitFrom(Tail(cs), Append(cur, Head(cs)), acc)

Split(cs) == SplitFrom(cs, <<>>, <<>>)

UpperChars ==
  <<"A", "B", "C", "D", "E", "F", "G", "H", "I", "J", "K", "L", "M",
    "N", "O", "P", "Q", "R", "S", "T", "U", "V", "W", "X", "Y", "Z">>

LowerChars ==
  <<"a", "b", "c", "d", "e", "f", "g", "h", "i", "j", "k", "l", "m",
    "n", "o", "p", "q", "r", "s", "t", "u", "v", "w", "x", "y", "z">>

LowerChar(c) ==
  IF \E i \in 1..26 : UpperChars[i] = c
  THEN LowerChars[CHOOSE i \in 1..26 : UpperChars[i] = c]
  ELSE c

\* token.lower()
Lower(tok) == [i \in 1..Len(tok) |-> LowerChar(tok[i])]

IsDigit(c) == \E i \in 1..10 : DigitChars[i] = c

DigitVal(c) == (CHOOSE i \in 1..10 : DigitChars[i] = c) - 1

\* no int() literal
NoLiteral == Wide(-1, 0)

\* the digits of an int() literal: digits, single underscores between
\* digits; NoLiteral when the text is no literal
RECURSIVE DigitsVal(_, _, _)
DigitsVal(cs, acc, afterDigit) ==
  IF cs = <<>> THEN (IF afterDigit THEN acc ELSE NoLiteral)
  ELSE IF IsDigit(Head(cs))
    THEN DigitsVal(Tail(cs), Norm(acc.hi * 10, acc.n * 10 + DigitVal(Head(cs))),
                   TRUE)
  ELSE IF Head(cs) = "_" /\ afterDigit THEN DigitsVal(Tail(cs), acc, FALSE)
  ELSE NoLiteral

\* mutant of PyInt: a text that is no literal reads as 0
PyInt_Lenient(tok) ==
  LET signed == tok # <<>> /\ Head(tok) \in {"+", "-"}
      mag == DigitsVal(IF signed THEN Tail(tok) ELSE tok, Wide(0, 0), FALSE)
      neg == signed /\ Head(tok) = "-"
  IN [ok |-> TRUE,
      n |-> (IF mag = NoLiteral THEN 0 ELSE IF neg THEN -mag.n ELSE mag.n),
      hi |-> (IF mag = NoLiteral THEN 0 ELSE IF neg THEN -mag.hi ELSE mag.hi),
      err |-> ""]

\* int(token): an optional sign and the digits; ValueError otherwise, with
\* the message Python gives
PyInt(tok) ==
  LET signed == tok # <<>> /\ Head(tok) \in {"+", "-"}
      mag == DigitsVal(IF signed THEN Tail(tok) ELSE tok, Wide(0, 0), FALSE)
      neg == signed /\ Head(tok) = "-"
  IN IF mag = NoLiteral
     THEN [ok |-> FALSE, n |-> 0, hi |-> 0,
           err |-> "invalid literal for int() with base 10: '"
                   \o Implode(tok) \o "'"]
     ELSE [ok |-> TRUE, n |-> (IF neg THEN -mag.n ELSE mag.n),
           hi |-> (IF neg THEN -mag.hi ELSE mag.hi), err |-> ""]

\* the value of a parsed int
IntOf(r) == Wide(r.hi, r.n)

(***************************************************************************)
(* parse_command.  A result is None or a text; the tree is updated in      *)
(* place, so the operator returns the tree with the result.  called tells  *)
(* whether the structure's aggregate (sum, minimum, maximum) was called.   *)
(***************************************************************************)
None == [none |-> TRUE, text |-> ""]

Text(s) == [none |-> FALSE, text |-> s]

\* mutant of parse_value: the token is compared as typed, not lowered
parse_value_as_typed(value_str) ==
  LET low == Implode(value_str)
  IN IF low \in {"inf", "infinity"} THEN [ok |-> TRUE, v |-> PosInf, err |-> ""]
     ELSE IF low \in {"-inf", "-infinity"}
       THEN [ok |-> TRUE, v |-> NegInf, err |-> ""]
     ELSE LET r == PyInt(value_str)
          IN [ok |-> r.ok, v |-> IntOf(r), err |-> r.err]

\* parse_value: inf / infinity and -inf / -infinity in any case, else int()
parse_value(value_str) ==
  LET low == Implode(Lower(value_str))
  IN IF low \in {"inf", "infinity"} THEN [ok |-> TRUE, v |-> PosInf, err |-> ""]
     ELSE IF low \in {"-inf", "-infinity"}
       THEN [ok |-> TRUE, v |-> NegInf, err |-> ""]
     ELSE LET r == PyInt(value_str)
          IN [ok |-> r.ok, v |-> IntOf(r), err |-> r.err]

\* except ValueError as e
InvalidFormat(err) ==
  "Invalid format: " \o err \o " (ensure all numbers are integers)"

IndexErrorText(index, t) ==
  "Index Error: " \o WideStr(index) \o " is out of range [0, "
  \o IntStr(TreeLen(t) - 1) \o "] (size=" \o IntStr(TreeLen(t)) \o ")"

RangeErrorText(left, right, t) ==
  "Range Error: [" \o WideStr(left) \o ", " \o WideStr(right)
  \o "] is invalid for size " \o IntStr(TreeLen(t))
  \o " (valid: [0, " \o IntStr(TreeLen(t) - 1) \o "])"

\* mutant of UsageText: the keyword is counted with the arguments
UsageText_counts_keyword(command, args, got) ==
  "Usage: " \o command \o " " \o args \o " (need exactly 2 arguments, got "
  \o IntStr(got + 1) \o ")"

UsageText(command, args, got) ==
  "Usage: " \o command \o " " \o args \o " (need exactly 2 arguments, got "
  \o IntStr(got) \o ")"

\* mutant of SetItem: += written for =
SetItem_Adds(t, index, value) ==
  TreeSet(t, index, PyAdd(TreeGet(t, index), value))

\* tree[index] = value
SetItem(t, index, value) == TreeSet(t, index, value)

\* mutant of AddItem: = written for +=
AddItem_Replaces(t, index, value) == TreeSet(t, index, value)

\* tree[index] += value
AddItem(t, index, value) == TreeSet(t, index, PyAdd(TreeGet(t, index), value))

\* mutant of QueryValid: left <= right
QueryValid_Inclusive(left, right, t) ==
  0 <= left /\ left <= right /\ right <= TreeLen(t)

\* the query branch: 0 <= left < right <= len(tree)
QueryValid(left, right, t) == 0 <= left /\ left < right /\ right <= TreeLen(t)

\* tree.sum / tree.minimum / tree.maximum, chosen by tree_type
QueryResult(t, tree_type, left, right) ==
  Text(PyStr(RangeAggregate(tree_type, t, left, right)))

\* mutant of parse_slash: the last branch returns the quit marker
parse_slash_quits(command) ==
  IF command = "/reset" THEN "reset"
  ELSE IF command = "/home" THEN "home"
  ELSE IF command = "/help" THEN "show_help"
  ELSE "quit"

\* the slash commands
parse_slash(command) ==
  IF command = "/reset" THEN "reset"
  ELSE IF command = "/home" THEN "home"
  ELSE IF command = "/help" THEN "show_help"
  ELSE "Unknown slash command. Try /help for available commands."

\* mutant of parse_other: an unknown keyword is returned as it is
parse_other_bare(command, nparts) ==
  IF command \in {"set", "s", "add", "a"}
  THEN IF nparts # 3 THEN UsageText(command, "<index> <value>", nparts - 1)
       ELSE "Invalid arguments - check that index and value are integers"
  ELSE IF command \in {"query", "q"}
  THEN IF nparts # 3 THEN UsageText(command, "<left> <right>", nparts - 1)
       ELSE "Invalid arguments - check that left and right are integers"
  ELSE command

\* the else branch of the keyword chain
parse_other(command, nparts) ==
  IF command \in {"set", "s", "add", "a"}
  THEN IF nparts # 3 THEN UsageText(command, "<index> <value>", nparts - 1)
       ELSE "Invalid arguments - check that index and value are integers"
  ELSE IF command \in {"query", "q"}
  THEN IF nparts # 3 THEN UsageText(command, "<left> <right>", nparts - 1)
       ELSE "Invalid arguments - check that left and right are integers"
  ELSE "Unknown command: '" \o command
       \o "'. Type '/help' for available commands."

parse_command(line, t, tree_type) ==
  LET parts == Split(line)
      Ret(res) == [result |-> res, tree |-> t, called |-> FALSE]
  IN IF parts = <<>> THEN Ret(None)
     ELSE
     LET command == Implode(Lower(parts[1]))
         nparts == Len(parts)
     IN IF Head(parts[1]) = "/" THEN Ret(Text(parse_slash(command)))
        ELSE IF command \in {"set", "s"} /\ nparts = 3
        THEN LET index == PyInt(parts[2])
                 value == parse_value(parts[3])
             IN IF ~index.ok THEN Ret(Text(InvalidFormat(index.err)))
                ELSE IF ~value.ok THEN Ret(Text(InvalidFormat(value.err)))
                ELSE IF index.hi = 0 /\ 0 <= index.n /\ index.n < TreeLen(t)
                THEN [result |-> None, tree |-> SetItem(t, index.n, value.v),
                      called |-> FALSE]
                ELSE Ret(Text(IndexErrorText(IntOf(index), t)))
        ELSE IF command \in {"add", "a"} /\ nparts = 3
        THEN LET index == PyInt(parts[2])
                 value == parse_value(parts[3])
             IN IF ~index.ok THEN Ret(Text(InvalidFormat(index.err)))
                ELSE IF ~value.ok THEN Ret(Text(InvalidFormat(value.err)))
                ELSE IF index.hi = 0 /\ 0 <= index.n /\ index.n < TreeLen(t)
                THEN [result |-> None, tree |-> AddItem(t, index.n, value.v),
                      called |-> FALSE]
                ELSE Ret(Text(IndexErrorText(IntOf(index), t)))
        ELSE IF command \in {"query", "q"} /\ nparts = 3
        THEN LET left == PyInt(parts[2])
                 right == PyInt(parts[3])
             IN IF ~left.ok THEN Ret(Text(InvalidFormat(left.err)))
                ELSE IF ~right.ok THEN Ret(Text(InvalidFormat(right.err)))
                ELSE IF left.hi = 0 /\ right.hi = 0 /\ QueryValid(left.n, right.n, t)
                THEN [result |-> QueryResult(t, tree_type, left.n, right.n),
                      tree |-> t, called |-> TRUE]
                ELSE Ret(Text(RangeErrorText(IntOf(left), IntOf(right), t)))
        ELSE IF command \in {"quit", "exit"} THEN Ret(Text("quit"))
        ELSE Ret(Text(parse_other(command, nparts)))

(***************************************************************************)
(* The adapter seen by the renderer.  introspect tells whether the tree    *)
(* object has the attributes _data and _offset; fault names one cell whose *)
(* value the tree fails to deliver, and the exception it raises there      *)
(* (NoFault for a tree that always answers).                                *)
(***************************************************************************)
NoFault == [level |-> -1, pos |-> 0, kind |-> ""]

\* a tree of package segee: node array exposed, no failure
StdAdapter == [introspect |-> TRUE, fault |-> NoFault]

\* a tree without the attributes _data and _offset
PlainAdapter == [introspect |-> FALSE, fault |-> NoFault]

\* except (AttributeError, IndexError, ValueError, TypeError)
CaughtKinds == {"AttributeError", "IndexError", "ValueError", "TypeError"}

\* tree._data[idx], modelled from the specification: root at node 0, the
\* children of node i at 2i+1 and 2i+2, the leaves after the internal nodes
RECURSIVE DataAt(_, _, _)
DataAt(variant, t, idx) ==
  IF idx >= TreeLen(t) - 1 THEN TreeGet(t, idx - (TreeLen(t) - 1))
  ELSE Combine(variant, DataAt(variant, t, 2 * idx + 1),
               DataAt(variant, t, 2 * idx + 2))

\* len(tree._data)
DataLen(t) == 2 * TreeLen(t) - 1

(***************************************************************************)
(* draw_tree_structure.  The rows are modelled as their visible text: the  *)
(* colour escapes have no width and are left out, and the box drawing      *)
(* characters are written +, - and |.                                      *)
(***************************************************************************)
\* LEAF_CELL_WIDTH
LEAF_CELL_WIDTH == 12

\* levels = [1, 2, 4, 8, 16]
levels == <<1, 2, 4, 8, 16>>

\* s * n for a text s (empty when n <= 0)
RECURSIVE Rep(_, _)
Rep(s, n) ==
  IF n <= 0 THEN ""
  ELSE IF n = 1 THEN s
  ELSE LET half == Rep(s, n \div 2)
       IN half \o half \o (IF n % 2 = 1 THEN s ELSE "")

\* a value returned by get_tree_value, or the exception that leaves it
Shown(text) == [raised |-> FALSE, text |-> text]

Raised(kind) == [raised |-> TRUE, text |-> kind]

\* the tree fails on this cell
Faulty(a, level, pos) == a.fault.level = level /\ a.fault.pos = pos

\* mutant of internal_idx: the node numbering that starts at 1
internal_idx_from_one(level, pos) ==
  IF level = 0 THEN 1
  ELSE IF level = 1 THEN 2 + pos
  ELSE IF level = 2 THEN 4 + pos
  ELSE IF level = 3 THEN 8 + pos
  ELSE 1

\* get_tree_value: the node index of an internal cell
internal_idx(level, pos) ==
  IF level = 0 THEN 0
  ELSE IF level = 1 THEN 1 + pos
  ELSE IF level = 2 THEN 3 + pos
  ELSE IF level = 3 THEN 7 + pos
  ELSE 0

\* get_tree_value: the text of the node read from tree._data
introspection(t, variant, level, pos) ==
  LET value == DataAt(variant, t, internal_idx(level, pos))
  IN IF value = PosInf THEN "inf"
     ELSE IF value = NegInf THEN "-inf"
     ELSE PyStr(value)

\* get_tree_value: the sub-range queried by the fallback
fallback_range(t, level, pos) ==
  IF level = 0 THEN [start |-> 0, end |-> TreeLen(t)]
  ELSE IF level = 1
    THEN LET mid == TreeLen(t) \div 2
         IN IF pos = 0 THEN [start |-> 0, end |-> mid]
            ELSE [start |-> mid, end |-> TreeLen(t)]
  ELSE IF level = 2
    THEN LET quarter == TreeLen(t) \div 4
         IN [start |-> pos * quarter, end |-> (pos + 1) * quarter]
  ELSE LET eighth == TreeLen(t) \div 8
       IN [start |-> pos * eighth, end |-> (pos + 1) * eighth]

\* get_tree_value: str(tree.prod(start, end))
fallback(t, variant, level, pos) ==
  LET r == fallback_range(t, level, pos)
  IN PyStr(RangeAggregate(variant, t, r.start, r.end))

\* get_tree_value(level, pos): the leaf is read outside the try; in the
\* internal levels the four caught exceptions give "?", any other leaves
\* the function
get_tree_value(t, variant, a, level, pos) ==
  IF t = NoTree THEN Shown("0")
  ELSE IF level = 4
    THEN IF pos < TreeLen(t)
         THEN (IF Faulty(a, level, pos) THEN Raised(a.fault.kind)
               ELSE Shown(PyStr(TreeGet(t, pos))))
         ELSE Shown("0")
  ELSE IF Faulty(a, level, pos)
    THEN (IF a.fault.kind \in CaughtKinds THEN Shown("?")
          ELSE Raised(a.fault.kind))
  ELSE IF a.introspect /\ internal_idx(level, pos) < DataLen(t)
    THEN Shown(introspection(t, variant, level, pos))
  ELSE Shown(fallback(t, variant, level, pos))

\* cell_width = base_cell_width * (2 ** level_from_bottom)
cell_width(level_idx) ==
  LEAF_CELL_WIDTH * (2 ^ (Len(levels) - 1 - level_idx))

\* h_line
h_line(level_idx) == Rep("-", cell_width(level_idx) - 1)

\* top_line and bottom_line: corner, h_line, separators, corner
border_line(level_idx) ==
  "+" \o h_line(level_idx)
  \o Rep("+" \o h_line(level_idx), levels[level_idx + 1] - 1) \o "+"

\* empty_line
empty_line(level_idx) ==
  "|" \o Rep(Rep(" ", cell_width(level_idx) - 1) \o "|", levels[level_idx + 1])

\* one cell of content_line: the value between its paddings, and the bar
content_cell(level_idx, value) ==
  LET value_padding == (cell_width(level_idx) - 1 - Len(value)) \div 2
      left_pad == value_padding
      right_pad == cell_width(level_idx) - 1 - Len(value) - left_pad
  IN Rep(" ", left_pad) \o value \o Rep(" ", right_pad) \o "|"

\* content_line: the cells of a level from left to right
RECURSIVE content_cells(_, _, _, _, _)
content_cells(t, variant, a, level_idx, i) ==
  IF i >= levels[level_idx + 1] THEN ""
  ELSE content_cell(level_idx,
                    get_tree_value(t, variant, a, level_idx, i).text)
       \o content_cells(t, variant, a, level_idx, i + 1)

content_line(t, variant, a, level_idx) ==
  "|" \o content_cells(t, variant, a, level_idx, 0)

\* index_line: the leaf numbers centred under the leaf cells
RECURSIVE index_cells(_)
index_cells(i) ==
  IF i >= levels[Len(levels)] THEN ""
  ELSE LET room == cell_width(Len(levels) - 1) - 1
           visible_len == Len(NatStr(i))
           left_pad == (room - visible_len) \div 2
           right_pad == room - visible_len - left_pad
       IN Rep(" ", left_pad) \o NatStr(i) \o Rep(" ", right_pad)
          \o (IF i < levels[Len(levels)] - 1 THEN " " ELSE "")
          \o index_cells(i + 1)

\* the rows of one level: top border for the first level only, padding,
\* content, padding, bottom border
level_lines(t, variant, a, level_idx) ==
  (IF level_idx = 0 THEN <<border_line(level_idx)>> ELSE <<>>)
  \o << empty_line(level_idx), content_line(t, variant, a, level_idx),
        empty_line(level_idx), border_line(level_idx) >>

\* the exception that leaves draw_tree_structure, "" when there is none:
\* only the cell the tree fails on can raise
draw_raises(t, variant, a) ==
  IF a.fault = NoFault THEN ""
  ELSE LET r == get_tree_value(t, variant, a, a.fault.level, a.fault.pos)
       IN IF r.raised THEN r.text ELSE ""

\* draw_tree_structure(tree): the rows of the pyramid and the index row
draw_tree_structure(t, variant, a) ==
  level_lines(t, variant, a, 0) \o level_lines(t, variant, a, 1)
  \o level_lines(t, variant, a, 2) \o level_lines(t, variant, a, 3)
  \o level_lines(t, variant, a, 4) \o <<" " \o index_cells(0)>>

(***************************************************************************)
(* draw_command_area and display_split_screen, as visible text.            *)
(***************************************************************************)
\* COMMAND_ROWS
COMMAND_ROWS == 20

\* the width of an entry in the panel: [:28] and {cmd:<28}
EntryWidth == 28

\* entry.replace('\t', ' ')
RECURSIVE ReplaceTabs(_)
ReplaceTabs(entry) ==
  IF entry = "" THEN ""
  ELSE (IF Head(entry) = "\t" THEN " " ELSE Head(entry))
       \o ReplaceTabs(Tail(entry))

\* entry[:width]
Truncate(entry, width) ==
  IF Len(entry) > width THEN SubSeq(entry, 1, width) ELSE entry

\* f"{entry:<width}"
PadRight(entry, width) == entry \o Rep(" ", width - Len(entry))

\* mutant of display_commands: the oldest entries are kept
display_commands_oldest(cmds) ==
  IF Len(cmds) > COMMAND_ROWS THEN SubSeq(cmds, 1, COMMAND_ROWS) ELSE cmds

\* display_commands = commands[-COMMAND_ROWS:] if len(commands) >
\* COMMAND_ROWS else commands
display_commands(cmds) ==
  IF Len(cmds) > COMMAND_ROWS
  THEN SubSeq(cmds, Len(cmds) - COMMAND_ROWS + 1, Len(cmds))
  ELSE cmds

\* the row of the panel for i in range(COMMAND_ROWS)
command_row(shown, i) ==
  IF i < Len(shown)
  THEN "| " \o PadRight(Truncate(ReplaceTabs(shown[i + 1]), EntryWidth),
                        EntryWidth) \o " |"
  ELSE IF i = Len(shown) THEN "| >" \o Rep(" ", EntryWidth) \o " |"
  ELSE "|" \o Rep(" ", EntryWidth + 2) \o "|"

\* draw_command_area(commands): header, COMMAND_ROWS rows, footer
draw_command_area(cmds) ==
  <<"+------- COMMAND --------------+">>
  \o [i \in 1..COMMAND_ROWS |-> command_row(display_commands(cmds), i - 1)]
  \o <<"+" \o Rep("-", EntryWidth + 2) \o "+">>

\* display_split_screen: both lists padded to the same height, each pair
\* of lines joined with a gap of 8 after a left panel of 32
display_split_screen(cmds, t, variant, a) ==
  LET command_lines == draw_command_area(cmds)
      tree_lines == draw_tree_structure(t, variant, a)
      max_height == IF Len(command_lines) > Len(tree_lines)
                    THEN Len(command_lines) ELSE Len(tree_lines)
  IN [i \in 1..max_height |->
        PadRight(IF i <= Len(command_lines) THEN command_lines[i]
                 ELSE Rep(" ", 30), 32)
        \o Rep(" ", 8)
        \o (IF i <= Len(tree_lines) THEN tree_lines[i] ELSE "")]

(***************************************************************************)
(* Input lines.  A line is the sequence of its characters.                 *)
(***************************************************************************)
RECURSIVE NatChars(_)
NatChars(n) ==
  IF n < 10 THEN <<DigitChars[n + 1]>>
  ELSE Append(NatChars(n \div 10), DigitChars[(n % 10) + 1])

\* the decimal literal of n
Num(n) == IF n < 0 THEN <<"-">> \o NatChars(-n) ELSE NatChars(n)

INF == <<"i", "n", "f">>

NINF == <<"-", "i", "n", "f">>

\* keyword, first argument, second argument, separated by one space
Line3(kw, a, b) == kw \o <<" ">> \o a \o <<" ">> \o b

SetLine(i, value) == Line3(<<"s">>, Num(i), value)

AddLine(i, value) == Line3(<<"a">>, Num(i), value)

QueryLine(left, right) == Line3(<<"q">>, Num(left), Num(right))

ResetLine == <<"/", "r", "e", "s", "e", "t">>

HomeLine == <<"/", "h", "o", "m", "e">>

HelpLine == <<"/", "h", "e", "l", "p">>

QuitLine == <<"q", "u", "i", "t">>

ExitLine == <<"E", "X", "I", "T">>

\* lines that end in an error text
ErrorLines ==
  { QueryLine(0, 0), QueryLine(5, 2), QueryLine(17, 18), QueryLine(-1, 3),
    QueryLine(0, 17),
    Line3(<<"q">>, <<"x">>, Num(1)),
    SetLine(0, <<"a", "b", "c">>), SetLine(16, Num(1)), AddLine(-1, Num(1)),
    <<"s", " ", "0">>,
    <<"f", "o", "o">>,
    <<"/", "f", "o", "o">> }

\* the lines of Spec
Lines ==
  { SetLine(0, Num(5)), SetLine(15, Num(-3)), SetLine(7, INF),
    AddLine(0, Num(5)), AddLine(15, NINF),
    QueryLine(0, 1), QueryLine(0, 16), QueryLine(15, 16),
    ResetLine, HomeLine, HelpLine, QuitLine, ExitLine,
    <<" ">> }
  \cup ErrorLines

\* the lines of SpecCalc: updates and queries on a few cells
CalcLines ==
  { SetLine(0, Num(5)), SetLine(0, INF), SetLine(15, <<"+", "0", "7">>),
    SetLine(8, NINF),
    AddLine(0, Num(5)), AddLine(0, INF), AddLine(0, NINF), AddLine(15, Num(-3)),
    QueryLine(0, 1), QueryLine(8, 9), QueryLine(15, 16), QueryLine(0, 16),
    ResetLine, HelpLine }

\* the characters of a typed text
Chars(text) == [i \in 1..Len(text) |-> SubSeq(text, i, i)]

\* typed texts that exercise the classification of commands
ClassifyTexts ==
  { "/reset", "/HOME", "/help", "/foo", "/",
    "s 0", "set", "a 1 2 3", "add 1", "query 1", "q 1 2 3",
    "quit", "QUIT", "Exit now",
    "foo", "reset", "home", "show_help" }

\* typed texts with an infinity token or another non-integer token
InfinityTexts ==
  { "s inf 1", "a -inf 1", "q inf 2", "q 0 Infinity",
    "s 0 INF", "s 1 Infinity", "a 0 -INFINITY", "a 1 -Inf",
    "s 0 1.5", "s 0 nan", "a 0 +inf", "s 0 abc" }

\* the lines of SpecParse
ParseLines ==
  {Chars(text) : text \in ClassifyTexts \cup InfinityTexts}
  \cup {SetLine(0, Num(5)), QueryLine(0, 1)}

\* the lines of SpecDraw: a value of 12 digits, infinities of both signs
\* added to one cell, small values beside it, a query, and /help
DrawLines ==
  { Chars("s 0 100000000000"), Chars("a 0 100000000000"),
    AddLine(2, INF), AddLine(2, NINF), SetLine(3, Num(-3)),
    SetLine(15, Num(7)), QueryLine(0, 16), HelpLine }

\* the cells a failing tree fails on: the root, the last cell above the
\* leaves, the first and the last leaf
FaultCells ==
  { [level |-> 0, pos |-> 0], [level |-> 3, pos |-> 7],
    [level |-> 4, pos |-> 0], [level |-> 4, pos |-> 15] }

\* the exceptions a failing tree raises: the four the renderer names, and
\* one it does not
FaultKinds == CaughtKinds \cup {"KeyError"}

\* the failing trees, with and without a node array
FaultyAdapters ==
  { [introspect |-> b,
     fault |-> [level |-> c.level, pos |-> c.pos, kind |-> k]] :
    b \in BOOLEAN, c \in FaultCells, k \in FaultKinds }

\* the lines of SpecFault
FaultLines == { SetLine(0, Num(5)), QueryLine(0, 1), HelpLine, ResetLine }

\* the lines of SpecPanel: a query (two entries) or an add (one entry) at
\* every prompt; at the first prompt also a query typed with a tab, an
\* unknown command (an entry wider than the panel) and /help
PanelLines(n) ==
  { QueryLine(0, 1), AddLine(0, Num(1)) }
  \cup (IF n = 0 THEN { Chars("q\t0 1"), Chars("foo"), HelpLine } ELSE {})

\* the command sequence of the sum scenario
SumScenario ==
  << SetLine(0, Num(10)), SetLine(3, INF), QueryLine(0, 4),
     AddLine(0, Num(5)), QueryLine(0, 1) >>

\* the command sequence of the min scenario
MinScenario == << SetLine(2, NINF), QueryLine(0, 16) >>

\* the lines of SpecScenario: in a sum session the commands of the sum
\* scenario, in a min or max session those of the min scenario, in any
\* order and number, and /help
ScenarioLines(type) ==
  {HelpLine} \cup (IF type = "sum"
                   THEN {SumScenario[i] : i \in 1..Len(SumScenario)}
                   ELSE {MinScenario[i] : i \in 1..Len(MinScenario)})

\* the answers at the menu prompt
MenuChoices == {"1", "2", "3", "4", ""}

\* an interrupt or the end of input at a blocking read
Signals == {"EOFError", "KeyboardInterrupt"}

(***************************************************************************)
(* State.                                                                  *)
(*   mode       where the process is blocked: "menu" (select_tree_type),   *)
(*              "confirm" (main, Press Enter), "loop" (interactive_mode),  *)
(*              "help" (display_help_screen), or "exited"                  *)
(*   choice     the last answer read by select_tree_type                   *)
(*   tree_type  main's tree_type ("" before the first choice)              *)
(*   tree, commands, cmd, result   the locals of interactive_mode; after   *)
(*              the call returns they keep their last values               *)
(*   out        the last message written by print or by sys.exit           *)
(*   exit_code  the exit status of the process once mode = "exited"        *)
(*   event      history variable: what the last blocking read delivered    *)
(*              (a line, EOFError or KeyboardInterrupt) and in which mode  *)
(*   log        history variable: for every non-blank line read, the line, *)
(*              its result, the tree and tree_type before it, and whether  *)
(*              the parse called the structure's aggregate                 *)
(*   turns      history variable: the number of lines read at the prompt   *)
(*   adapter    the tree class the renderer meets: whether it exposes its  *)
(*              node array, and the cell it fails on, if any; fixed for    *)
(*              the run                                                     *)
(***************************************************************************)
VARIABLES mode, choice, tree_type, tree, commands, cmd, result, out,
          exit_code, event, log, turns, adapter

vars == <<mode, choice, tree_type, tree, commands, cmd, result, out,
          exit_code, event, log, turns, adapter>>

\* a blocking read in mode at delivered kind
Read(kind, at) == [kind |-> kind, at |-> at]

\* exit status of an uncaught exception: 1, and 130 for KeyboardInterrupt
Uncaught(sig) == IF sig = "KeyboardInterrupt" THEN 130 ELSE 1

\* main: display_logo, then select_tree_type prints the menu; the tree
\* classes are those of adapter a
Start(a) ==
  /\ adapter = a
  /\ mode = "menu"
  /\ choice = ""
  /\ tree_type = ""
  /\ tree = NoTree
  /\ commands = <<>>
  /\ cmd = <<>>
  /\ result = None
  /\ out = "3. Max Segment Tree"
  /\ exit_code = 0
  /\ event = Read("none", "")
  /\ log = <<>>
  /\ turns = 0

\* the run with the tree classes of package segee
Init == Start(StdAdapter)

\* mutant of ChoiceType: choices 2 and 3 exchanged
ChoiceType_exchanged(c) ==
  CASE c = "1" -> "sum"
    [] c = "2" -> "max"
    [] c = "3" -> "min"

\* select_tree_type: the tree type of a choice
ChoiceType(c) ==
  CASE c = "1" -> "sum"
    [] c = "2" -> "min"
    [] c = "3" -> "max"

\* select_tree_type reads a choice; main prints the instructions
select_tree_type(choices) ==
  /\ mode = "menu"
  /\ event' = Read("line", "menu")
  /\ \E c \in choices :
       /\ choice' = c
       /\ IF c \in {"1", "2", "3"}
          THEN /\ tree_type' = ChoiceType(c)
               /\ mode' = "confirm"
               /\ out' = "All indices are 0-based. Press Ctrl+C to exit."
          ELSE /\ out' = "Invalid choice. Please enter 1, 2, or 3."
               /\ UNCHANGED <<mode, tree_type>>
  /\ UNCHANGED <<tree, commands, cmd, result, exit_code, log, turns, adapter>>

\* select_tree_type: except (EOFError, KeyboardInterrupt): sys.exit(0)
select_tree_type_interrupt ==
  /\ mode = "menu"
  /\ \E sig \in Signals :
       /\ event' = Read(sig, "menu")
       /\ mode' = "exited"
       /\ out' = "\nExiting..."
       /\ exit_code' = 0
  /\ UNCHANGED <<choice, tree_type, tree, commands, cmd, result, log, turns,
                 adapter>>

\* mutant of interactive_mode_start: a tree made once and kept
interactive_mode_start_stale ==
  /\ tree' = (IF tree = NoTree THEN NewTree ELSE tree)
  /\ commands' = <<>>

\* interactive_mode: tree = tree_class(16); commands = []
interactive_mode_start ==
  /\ tree' = NewTree
  /\ commands' = <<>>

\* interactive_mode: display_split_screen(commands, tree) at the top of
\* the loop, outside the try: the loop waits at the prompt, or an
\* exception raised while drawing tree t leaves interactive_mode and main
loop_top(t) ==
  LET e == draw_raises(t, tree_type, adapter)
  IN IF e = ""
     THEN /\ mode' = "loop"
          /\ UNCHANGED <<out, exit_code>>
     ELSE /\ mode' = "exited"
          /\ out' = e
          /\ exit_code' = 1

\* main: input("Press Enter to start interactive mode..."), then
\* interactive_mode(tree_type, tree_class)
main_confirm ==
  /\ mode = "confirm"
  /\ event' = Read("line", "confirm")
  /\ interactive_mode_start
  /\ loop_top(NewTree)
  /\ UNCHANGED <<choice, tree_type, cmd, result, log, turns, adapter>>

\* main: the same input() raises; nothing in main catches it
main_confirm_interrupt ==
  /\ mode = "confirm"
  /\ \E sig \in Signals :
       /\ event' = Read(sig, "confirm")
       /\ mode' = "exited"
       /\ out' = sig
       /\ exit_code' = Uncaught(sig)
  /\ UNCHANGED <<choice, tree_type, tree, commands, cmd, result, log, turns,
                 adapter>>

\* mutant of do_reset: the history is cleared, the tree is kept
do_reset_keeps_tree ==
  /\ tree' = tree
  /\ commands' = <<>>

\* interactive_mode: result == "reset"
do_reset ==
  /\ tree' = NewTree
  /\ commands' = <<>>

\* mutant of do_show_help: the help command is echoed into the history
do_show_help_echoed ==
  /\ tree' = tree
  /\ commands' = Append(commands, "> " \o Implode(cmd'))

\* interactive_mode: result == "show_help": the help screen is shown and
\* the loop continues; nothing is added to the history
do_show_help ==
  /\ tree' = tree
  /\ commands' = commands

\* mutant of append_history: the result is appended even when it is None
append_history_always(line, res) ==
  commands' = commands \o <<"> " \o Implode(line), res.text>>

\* interactive_mode: the else branch: the echoed input, then the result
\* when it is not None (and not empty)
append_history(line, res) ==
  commands' = commands \o <<"> " \o Implode(line)>>
              \o (IF res.none \/ res.text = "" THEN <<>> ELSE <<res.text>>)

\* interactive_mode: one turn of the loop on a line read at the prompt
interactive_mode_turn(line) ==
  /\ cmd' = line
  /\ turns' = turns + 1
  /\ event' = Read("line", "loop")
  /\ UNCHANGED <<choice, adapter>>
  /\ IF IsBlank(line)
     THEN /\ loop_top(tree)
          /\ UNCHANGED <<tree_type, tree, commands, result, log>>
     ELSE
     LET r == parse_command(line, tree, tree_type)
     IN /\ result' = r.result
        /\ log' = Append(log, [cmd |-> line, result |-> r.result,
                                pre |-> tree, type |-> tree_type,
                                called |-> r.called])
        /\ UNCHANGED tree_type
        /\ IF r.result = Text("quit")
           THEN /\ out' = "Goodbye!"
                /\ mode' = "exited"
                /\ exit_code' = 0
                /\ UNCHANGED <<tree, commands>>
           ELSE IF r.result = Text("reset")
           THEN /\ do_reset
                /\ loop_top(NewTree)
           ELSE IF r.result = Text("home")
           THEN /\ mode' = "menu"
                /\ out' = "3. Max Segment Tree"
                /\ UNCHANGED <<tree, commands, exit_code>>
           ELSE IF r.result = Text("show_help")
           THEN /\ mode' = "help"
                /\ do_show_help
                /\ UNCHANGED <<out, exit_code>>
           ELSE /\ tree' = r.tree
                /\ append_history(line, r.result)
                /\ loop_top(r.tree)

\* interactive_mode: cmd = input("\n> ")
interactive_mode(lines, maxTurns) ==
  /\ mode = "loop"
  /\ turns < maxTurns
  /\ \E line \in lines : interactive_mode_turn(line)

\* interactive_mode: except (EOFError, KeyboardInterrupt): Goodbye, break;
\* main then leaves its loop and the process ends
interactive_mode_interrupt ==
  /\ mode = "loop"
  /\ \E sig \in Signals :
       /\ event' = Read(sig, "loop")
       /\ mode' = "exited"
       /\ out' = "\nGoodbye!"
       /\ exit_code' = 0
  /\ UNCHANGED <<choice, tree_type, tree, commands, cmd, result, log, turns,
                 adapter>>

\* display_help_screen: input() returns; back to the top of the loop
display_help_screen ==
  /\ mode = "help"
  /\ event' = Read("line", "help")
  /\ loop_top(tree)
  /\ UNCHANGED <<choice, tree_type, tree, commands, cmd, result, log, turns,
                 adapter>>

\* display_help_screen: except (EOFError, KeyboardInterrupt): pass; the
\* function returns and the loop continues
display_help_screen_interrupt ==
  /\ mode = "help"
  /\ \E sig \in Signals :
       /\ event' = Read(sig, "help")
  /\ loop_top(tree)
  /\ UNCHANGED <<choice, tree_type, tree, commands, cmd, result, log, turns,
                 adapter>>

Next ==
  \/ select_tree_type(MenuChoices)
  \/ select_tree_type_interrupt
  \/ main_confirm
  \/ main_confirm_interrupt
  \/ interactive_mode(Lines, MaxTurns)
  \/ interactive_mode_interrupt
  \/ display_help_screen
  \/ display_help_screen_interrupt

Spec == Init /\ [][Next]_vars

NextCalc ==
  \/ select_tree_type(MenuChoices)
  \/ select_tree_type_interrupt
  \/ main_confirm
  \/ main_confirm_interrupt
  \/ interactive_mode(CalcLines, CalcTurns)
  \/ interactive_mode_interrupt
  \/ display_help_screen
  \/ display_help_screen_interrupt

SpecCalc == Init /\ [][NextCalc]_vars

NextScenario ==
  \/ select_tree_type(MenuChoices)
  \/ select_tree_type_interrupt
  \/ main_confirm
  \/ main_confirm_interrupt
  \/ interactive_mode(ScenarioLines(tree_type), ScenarioTurns)
  \/ interactive_mode_interrupt
  \/ display_help_screen
  \/ display_help_screen_interrupt

SpecScenario == Init /\ [][NextScenario]_vars

NextDraw ==
  \/ select_tree_type(MenuChoices)
  \/ select_tree_type_interrupt
  \/ main_confirm
  \/ main_confirm_interrupt
  \/ interactive_mode(DrawLines, DrawTurns)
  \/ interactive_mode_interrupt
  \/ display_help_screen
  \/ display_help_screen_interrupt

\* the runs with a tree that exposes its node array and with one that
\* does not
SpecDraw ==
  (\E a \in {StdAdapter, PlainAdapter} : Start(a)) /\ [][NextDraw]_vars

NextFault ==
  \/ select_tree_type(MenuChoices)
  \/ select_tree_type_interrupt
  \/ main_confirm
  \/ main_confirm_interrupt
  \/ interactive_mode(FaultLines, FaultTurns)
  \/ interactive_mode_interrupt
  \/ display_help_screen
  \/ display_help_screen_interrupt

\* the runs with a tree that may fail on a cell
SpecFault ==
  (\E a \in FaultyAdapters \cup {StdAdapter, PlainAdapter} : Start(a))
  /\ [][NextFault]_vars

NextPanel ==
  \/ select_tree_type(MenuChoices)
  \/ select_tree_type_interrupt
  \/ main_confirm
  \/ main_confirm_interrupt
  \/ interactive_mode(PanelLines(turns), PanelTurns)
  \/ interactive_mode_interrupt
  \/ display_help_screen
  \/ display_help_screen_interrupt

SpecPanel == Init /\ [][NextPanel]_vars

NextParse ==
  \/ select_tree_type(MenuChoices)
  \/ select_tree_type_interrupt
  \/ main_confirm
  \/ main_confirm_interrupt
  \/ interactive_mode(ParseLines, ParseTurns)
  \/ interactive_mode_interrupt
  \/ display_help_screen
  \/ display_help_screen_interrupt

SpecParse == Init /\ [][NextParse]_vars

(***************************************************************************)
(* Properties.                                                             *)
(***************************************************************************)
\* a step that reads a line at the interactive prompt
TurnStep == turns' = turns + 1

\* the value tokens of the runs with the text of the value they denote
ValueCases ==
  { [tok |-> Num(5), text |-> "5", inf |-> 0, n |-> 5],
    [tok |-> Num(-3), text |-> "-3", inf |-> 0, n |-> -3],
    [tok |-> <<"+", "0", "7">>, text |-> "7", inf |-> 0, n |-> 7],
    [tok |-> INF, text |-> "inf", inf |-> 1, n |-> 0],
    [tok |-> NINF, text |-> "-inf", inf |-> -1, n |-> 0] }

Cells == 0..(TreeSize - 1)

\* the set-then-query cases: every cell with every value token
SetQueryCases ==
  { [first |-> SetLine(i, v.tok), query |-> QueryLine(i, i + 1),
     text |-> v.text] : i \in Cells, v \in ValueCases }

\* C1: in the sum variant, a successful Set(i, v) immediately followed by
\* Query(i, i+1) returns the text of v, whatever the tree held before.
C1_SetThenQuery ==
  Len(log) >= 2 =>
    LET k == Len(log)
    IN \A c \in SetQueryCases :
         ( /\ log[k].type = "sum"
           /\ log[k].cmd = c.query
           /\ log[k - 1].cmd = c.first )
         => /\ log[k - 1].result = None
            /\ log[k].result = Text(c.text)

\* C1 happens: cell 0 holds something else, is set to 5 and queried
C1_Witness ==
  /\ Len(log) >= 3
  /\ log[Len(log)].type = "sum"
  /\ log[Len(log) - 1].cmd = SetLine(0, Num(5))
  /\ log[Len(log) - 1].pre[0] = PosInf
  /\ log[Len(log)].cmd = QueryLine(0, 1)
  /\ log[Len(log)].result = Text("5")

\* the text of v1 + v2 for two value cases
SumText(v1, v2) ==
  IF v1.inf = 0 /\ v2.inf = 0 THEN IntStr(v1.n + v2.n)
  ELSE IF v1.inf + v2.inf > 0 THEN "inf"
  ELSE IF v1.inf + v2.inf < 0 THEN "-inf"
  ELSE "nan"

\* the add-then-query cases
AddQueryCases ==
  { [first |-> AddLine(i, v.tok), query |-> QueryLine(i, i + 1),
     text |-> v.text] : i \in Cells, v \in ValueCases }

\* the add-add-then-query cases
AddAddQueryCases ==
  { [first |-> AddLine(i, v1.tok), second |-> AddLine(i, v2.tok),
     query |-> QueryLine(i, i + 1), text |-> SumText(v1, v2)] :
    i \in Cells, v1 \in ValueCases, v2 \in ValueCases }

\* C2: on an all-zero structure Add(i, v) then Query(i, i+1) returns v, and
\* Add(i, v1), Add(i, v2) then Query(i, i+1) returns v1 + v2 (inf + -inf
\* is the float nan); the second add does not replace the first.
C2_AddAccumulates ==
  LET k == Len(log)
  IN /\ k >= 2 =>
          \A c \in AddQueryCases :
            ( /\ log[k].cmd = c.query
              /\ log[k - 1].cmd = c.first
              /\ log[k - 1].pre = NewTree )
            => log[k].result = Text(c.text)
     /\ k >= 3 =>
          \A c \in AddAddQueryCases :
            ( /\ log[k].cmd = c.query
              /\ log[k - 1].cmd = c.second
              /\ log[k - 2].cmd = c.first
              /\ log[k - 2].pre = NewTree )
            => log[k].result = Text(c.text)

\* C2 happens: two adds of 5 on a fresh min tree, then the query says 10
C2_Witness ==
  /\ Len(log) = 3
  /\ log[1].pre = NewTree
  /\ log[1].type = "min"
  /\ log[1].cmd = AddLine(0, Num(5))
  /\ log[2].cmd = AddLine(0, Num(5))
  /\ log[3].cmd = QueryLine(0, 1)
  /\ log[3].result = Text("10")

\* the query lines over the bounds -1 .. 18
QueryCases ==
  { [line |-> QueryLine(l, r), l |-> l, r |-> r] :
    l \in -1..(TreeSize + 2), r \in -1..(TreeSize + 2) }

\* the Range Error message for a pair of bounds
RangeErrorSays(l, r) ==
  "Range Error: [" \o IntStr(l) \o ", " \o IntStr(r)
  \o "] is invalid for size 16 (valid: [0, 15])"

\* C3: a query with integer bounds returns the aggregate exactly when
\* 0 <= left < right <= length; any other pair gives a Range Error, in
\* every variant, without calling the structure's aggregate.
C3_QueryRange ==
  Len(log) >= 1 =>
    LET e == log[Len(log)]
    IN \A c \in QueryCases :
         e.cmd = c.line =>
           IF 0 <= c.l /\ c.l < c.r /\ c.r <= TreeSize
           THEN /\ e.called
                /\ e.result = Text(PyStr(RangeAggregate(e.type, e.pre, c.l, c.r)))
           ELSE /\ ~e.called
                /\ e.result = Text(RangeErrorSays(c.l, c.r))

\* C3 happens: an empty range after an update, and a valid full range
C3_Witness ==
  /\ Len(log) = 2
  /\ log[1].cmd = QueryLine(0, 0)
  /\ log[1].type = "max"
  /\ log[1].result = Text("Range Error: [0, 0] is invalid for size 16 (valid: [0, 15])")
  /\ log[2].cmd = QueryLine(0, 16)
  /\ log[2].called
  /\ log[2].result = Text("0")

\* the error lines of the runs, with their echo and their message
ErrorCases ==
  { [line |-> QueryLine(0, 0), echo |-> "> q 0 0",
     msg |-> "Range Error: [0, 0] is invalid for size 16 (valid: [0, 15])"],
    [line |-> QueryLine(5, 2), echo |-> "> q 5 2",
     msg |-> "Range Error: [5, 2] is invalid for size 16 (valid: [0, 15])"],
    [line |-> QueryLine(17, 18), echo |-> "> q 17 18",
     msg |-> "Range Error: [17, 18] is invalid for size 16 (valid: [0, 15])"],
    [line |-> QueryLine(-1, 3), echo |-> "> q -1 3",
     msg |-> "Range Error: [-1, 3] is invalid for size 16 (valid: [0, 15])"],
    [line |-> QueryLine(0, 17), echo |-> "> q 0 17",
     msg |-> "Range Error: [0, 17] is invalid for size 16 (valid: [0, 15])"],
    [line |-> Line3(<<"q">>, <<"x">>, Num(1)), echo |-> "> q x 1",
     msg |-> "Invalid format: invalid literal for int() with base 10: 'x' (ensure all numbers are integers)"],
    [line |-> SetLine(0, <<"a", "b", "c">>), echo |-> "> s 0 abc",
     msg |-> "Invalid format: invalid literal for int() with base 10: 'abc' (ensure all numbers are integers)"],
    [line |-> SetLine(16, Num(1)), echo |-> "> s 16 1",
     msg |-> "Index Error: 16 is out of range [0, 15] (size=16)"],
    [line |-> AddLine(-1, Num(1)), echo |-> "> a -1 1",
     msg |-> "Index Error: -1 is out of range [0, 15] (size=16)"],
    [line |-> <<"s", " ", "0">>, echo |-> "> s 0",
     msg |-> "Usage: s <index> <value> (need exactly 2 arguments, got 1)"],
    [line |-> <<"f", "o", "o">>, echo |-> "> foo",
     msg |-> "Unknown command: 'foo'. Type '/help' for available commands."],
    [line |-> <<"/", "f", "o", "o">>, echo |-> "> /foo",
     msg |-> "Unknown slash command. Try /help for available commands."] }

\* C4: a line that ends in an error leaves the tree as it was and appends
\* the echoed input and then the error message to the history, nothing else.
C4_ErrorKeepsTree ==
  [][ \A c \in ErrorCases :
        (TurnStep /\ cmd' = c.line) =>
          /\ tree' = tree
          /\ commands' = commands \o <<c.echo, c.msg>> ]_vars

\* C4 happens: cell 0 holds 5, then s 0 abc fails and cell 0 still holds 5
C4_Witness ==
  /\ mode = "loop"
  /\ Len(log) = 2
  /\ log[1].cmd = SetLine(0, Num(5))
  /\ log[2].cmd = SetLine(0, <<"a", "b", "c">>)
  /\ tree[0] = Fin(5)
  /\ commands = <<"> s 0 5", "> s 0 abc",
                  "Invalid format: invalid literal for int() with base 10: 'abc' (ensure all numbers are integers)">>

C6_ParserNeverEndsSession ==
  [][ /\ (mode = "loop" /\ mode' \notin {"loop", "help"}) =>
           \/ event'.kind \in Signals /\ mode' = "exited" /\ exit_code' = 0
           \/ /\ TurnStep
              /\ cmd' \in {QuitLine, ExitLine}
              /\ mode' = "exited"
              /\ exit_code' = 0
           \/ TurnStep /\ cmd' = HomeLine /\ mode' = "menu"
      /\ \A c \in ErrorCases :
           (TurnStep /\ cmd' = c.line) =>
             /\ result' = Text(c.msg)
             /\ mode' = "loop"
             /\ exit_code' = exit_code ]_vars

\* C6 happens: two failing lines in a row and the session still reads
C6_Witness ==
  /\ mode = "loop"
  /\ Len(log) = 2
  /\ log[1].cmd = <<"/", "f", "o", "o">>
  /\ log[2].cmd = SetLine(16, Num(1))
  /\ result = Text("Index Error: 16 is out of range [0, 15] (size=16)")
  /\ Len(commands) = 4

\* C7: an interrupt or the end of input at any blocking read ends the
\* session gracefully, with exit code 0.
C7_InterruptExitsCleanly ==
  event.kind \in Signals => (mode = "exited" /\ exit_code = 0)

\* C8: an interrupt or the end of input inside the interactive loop, the
\* help overlay included, ends the session.
C8_InterruptInLoopQuits ==
  (event.kind \in Signals /\ event.at \in {"loop", "help"}) => mode = "exited"

\* the updates of the runs with their echo
UpdateCases ==
  { [line |-> SetLine(0, Num(5)), echo |-> "> s 0 5"],
    [line |-> SetLine(15, Num(-3)), echo |-> "> s 15 -3"],
    [line |-> SetLine(7, INF), echo |-> "> s 7 inf"],
    [line |-> AddLine(0, Num(5)), echo |-> "> a 0 5"],
    [line |-> AddLine(15, NINF), echo |-> "> a 15 -inf"] }

\* the valid queries of the runs with their echo
QueryOkCases ==
  { [line |-> QueryLine(0, 1), echo |-> "> q 0 1", l |-> 0, r |-> 1],
    [line |-> QueryLine(0, 16), echo |-> "> q 0 16", l |-> 0, r |-> 16],
    [line |-> QueryLine(15, 16), echo |-> "> q 15 16", l |-> 15, r |-> 16] }

\* C9: a successful set or add appends the echoed input alone; a successful
\* query appends the echoed input and then the text of the aggregate, and
\* leaves the tree as it was.
C9_HistoryEntries ==
  [][ /\ \A c \in UpdateCases :
           (TurnStep /\ cmd' = c.line) =>
             /\ result' = None
             /\ commands' = commands \o <<c.echo>>
      /\ \A c \in QueryOkCases :
           (TurnStep /\ cmd' = c.line) =>
             /\ commands' = commands
                  \o <<c.echo, PyStr(RangeAggregate(tree_type, tree, c.l, c.r))>>
             /\ tree' = tree ]_vars

\* C9 happens: one entry for the set, two for the query
C9_Witness ==
  /\ mode = "loop"
  /\ tree_type = "sum"
  /\ tree[0] = Fin(5)
  /\ commands = <<"> s 0 5", "> q 0 16", "5">>

\* the variant of a menu answer
VariantOfChoice(c) ==
  IF c = "1" THEN "sum" ELSE IF c = "2" THEN "min" ELSE "max"

\* C10: /home leaves the loop for the menu; the loop entered after the next
\* selection and confirmation starts with a freshly created tree, an empty
\* history and the variant selected last.
C10_HomeAbandons ==
  [][ /\ (TurnStep /\ cmd' = HomeLine) => mode' = "menu"
      /\ (mode = "confirm" /\ mode' = "loop") =>
           /\ tree' = NewTree
           /\ commands' = <<>>
           /\ choice' \in {"1", "2", "3"}
           /\ tree_type' = VariantOfChoice(choice') ]_vars

\* C10 happens: a sum session set cell 0, went home, and a max session runs
C10_Witness ==
  /\ mode = "loop"
  /\ Len(log) = 2
  /\ log[1].cmd = SetLine(0, Num(5))
  /\ log[1].type = "sum"
  /\ log[2].cmd = HomeLine
  /\ log[2].pre[0] = Fin(5)
  /\ tree_type = "max"
  /\ tree = NewTree
  /\ commands = <<>>

\* C11: /help opens the help overlay with the history, the tree and the
\* tree type unchanged and nothing added to the history; pressing Enter on
\* the overlay returns to the loop with all three unchanged.
C11_HelpKeepsSession ==
  [][ /\ (TurnStep /\ cmd' = HelpLine)
         => /\ mode' = "help"
            /\ UNCHANGED <<commands, tree, tree_type>>
      /\ (mode = "help" /\ event' = Read("line", "help"))
         => /\ mode' = "loop"
            /\ UNCHANGED <<commands, tree, tree_type>> ]_vars

\* C11 happens: after s 0 5 the user typed /help and pressed Enter
C11_Witness ==
  /\ mode = "loop"
  /\ event = Read("line", "help")
  /\ Len(log) = 2
  /\ log[1].cmd = SetLine(0, Num(5))
  /\ log[2].cmd = HelpLine
  /\ commands = <<"> s 0 5">>
  /\ tree[0] = Fin(5)

\* C12: at the menu an answer other than 1, 2, 3 prints the invalid-choice
\* message and stays at the menu; no step at the menu creates or changes a
\* tree; the menu is left for the confirmation only with a valid choice,
\* whose variant becomes the tree type; and every later valid query
\* returns the aggregate of the variant chosen last.
C12_MenuSelectsVariant ==
  [][ /\ ( /\ mode = "menu"
           /\ event' = Read("line", "menu")
           /\ choice' \notin {"1", "2", "3"} )
         => /\ mode' = "menu"
            /\ out' = "Invalid choice. Please enter 1, 2, or 3."
            /\ tree_type' = tree_type
      /\ mode = "menu" => tree' = tree
      /\ (mode = "menu" /\ mode' = "confirm")
         => /\ choice' \in {"1", "2", "3"}
            /\ tree_type' = VariantOfChoice(choice')
      /\ \A c \in QueryOkCases :
           (TurnStep /\ cmd' = c.line)
           => result' = Text(PyStr(RangeAggregate(VariantOfChoice(choice),
                                                  tree, c.l, c.r))) ]_vars

\* C12 happens: the min variant was chosen; after s 0 5 the query over the
\* whole range says 0, the minimum (the sum and the maximum are 5)
C12_Witness ==
  /\ mode = "loop"
  /\ choice = "2"
  /\ tree = [NewTree EXCEPT ![0] = Fin(5)]
  /\ Len(log) = 2
  /\ log[1].cmd = SetLine(0, Num(5))
  /\ log[2].cmd = QueryLine(0, 16)
  /\ result = Text("0")

\* the last n entries of the log are the commands of scenario, typed in a
\* session of the variant type, the first of them on a fresh tree
Played(scenario, type) ==
  LET n == Len(scenario)
      k == Len(log)
  IN /\ k >= n
     /\ log[k - n + 1].pre = NewTree
     /\ \A i \in 1..n : /\ log[k - n + i].cmd = scenario[i]
                        /\ log[k - n + i].type = type

\* the results of the last n commands
LastResults(n) == [i \in 1..n |-> log[Len(log) - n + i].result]

\* C13: on a fresh tree of 16 elements, in the sum variant s 0 10, s 3 inf,
\* q 0 4, a 0 5, q 0 1 give nothing, nothing, inf, nothing, 15; in the min
\* variant s 2 -inf, q 0 16 give nothing and -inf.
C13_Scenarios ==
  /\ Played(SumScenario, "sum")
     => LastResults(5) = <<None, None, Text("inf"), None, Text("15")>>
  /\ Played(MinScenario, "min")
     => LastResults(2) = <<None, Text("-inf")>>

\* C13 happens: the sum scenario was typed from the first prompt on and
\* the history holds its echoes and its two results
C13_Witness ==
  /\ Played(SumScenario, "sum")
  /\ Len(log) = 5
  /\ mode = "loop"
  /\ commands = << "> s 0 10", "> s 3 inf", "> q 0 4", "inf", "> a 0 5",
                   "> q 0 1", "15" >>
  /\ tree[0] = Fin(15)
  /\ tree[3] = PosInf

\* the classes of the taxonomy with a typed text of each, and the message
\* of the classes that are errors
ClassCases ==
  { [text |-> "/reset", class |-> "reset", msg |-> ""],
    [text |-> "/HOME", class |-> "home", msg |-> ""],
    [text |-> "/help", class |-> "help", msg |-> ""],
    [text |-> "/foo", class |-> "error",
     msg |-> "Unknown slash command. Try /help for available commands."],
    [text |-> "/", class |-> "error",
     msg |-> "Unknown slash command. Try /help for available commands."],
    [text |-> "s 0", class |-> "error",
     msg |-> "Usage: s <index> <value> (need exactly 2 arguments, got 1)"],
    [text |-> "set", class |-> "error",
     msg |-> "Usage: set <index> <value> (need exactly 2 arguments, got 0)"],
    [text |-> "a 1 2 3", class |-> "error",
     msg |-> "Usage: a <index> <value> (need exactly 2 arguments, got 3)"],
    [text |-> "add 1", class |-> "error",
     msg |-> "Usage: add <index> <value> (need exactly 2 arguments, got 1)"],
    [text |-> "query 1", class |-> "error",
     msg |-> "Usage: query <left> <right> (need exactly 2 arguments, got 1)"],
    [text |-> "q 1 2 3", class |-> "error",
     msg |-> "Usage: q <left> <right> (need exactly 2 arguments, got 3)"],
    [text |-> "quit", class |-> "quit", msg |-> ""],
    [text |-> "QUIT", class |-> "quit", msg |-> ""],
    [text |-> "Exit now", class |-> "quit", msg |-> ""],
    [text |-> "foo", class |-> "error",
     msg |-> "Unknown command: 'foo'. Type '/help' for available commands."],
    [text |-> "reset", class |-> "error",
     msg |-> "Unknown command: 'reset'. Type '/help' for available commands."],
    [text |-> "home", class |-> "error",
     msg |-> "Unknown command: 'home'. Type '/help' for available commands."],
    [text |-> "show_help", class |-> "error",
     msg |-> "Unknown command: 'show_help'. Type '/help' for available commands."] }

\* the same cases with the line as it is read
ClassLines ==
  { [line |-> Chars(c.text), text |-> c.text, class |-> c.class,
     msg |-> c.msg] : c \in ClassCases }

\* what the session does with a line of class c
ClassEffect(c) ==
  CASE c.class = "reset" ->
         mode' = "loop" /\ commands' = <<>> /\ tree' = NewTree
    [] c.class = "home" -> mode' = "menu" /\ exit_code' = 0
    [] c.class = "help" -> mode' = "help" /\ commands' = commands
    [] c.class = "quit" ->
         mode' = "exited" /\ exit_code' = 0 /\ out' = "Goodbye!"
    [] c.class = "error" ->
         /\ mode' = "loop"
         /\ tree' = tree
         /\ commands' = commands \o <<"> " \o c.text, c.msg>>

\* C14: every line is classified: a first token that begins with / is
\* /reset, /home or /help (in any letter case) or gives the unknown slash
\* command message; set/s, add/a, query/q with other than 2 arguments give
\* the usage message with the expected arguments and the count received;
\* quit/exit in any letter case, with or without arguments, quits; every
\* other keyword gives the unknown command message that names it.
C14_Classification ==
  [][ \A c \in ClassLines : (TurnStep /\ cmd' = c.line) => ClassEffect(c) ]_vars

\* C14 happens: after a usage error, an unknown keyword is named
C14_Witness ==
  /\ mode = "loop"
  /\ Len(log) = 2
  /\ log[1].cmd = Chars("a 1 2 3")
  /\ log[2].cmd = Chars("foo")
  /\ commands =
       << "> a 1 2 3",
          "Usage: a <index> <value> (need exactly 2 arguments, got 3)",
          "> foo",
          "Unknown command: 'foo'. Type '/help' for available commands." >>

\* the control commands among the typed lines, by the marker they return
ControlLines ==
  [ quit |-> {Chars("quit"), Chars("QUIT"), Chars("Exit now")},
    reset |-> {Chars("/reset")},
    home |-> {Chars("/HOME")},
    show_help |-> {Chars("/help")} ]

\* the internal result markers
Markers == {Text("quit"), Text("reset"), Text("home"), Text("show_help")}

\* C19: a line read at the prompt ends the session only if it is quit or
\* exit, leaves for the menu only if it is /home, opens the help only if
\* it is /help, and clears the history or renews the tree only if it is
\* /reset; the result of any other line (a query result, an error
\* message, the keywords reset, home, show_help typed without the slash)
\* is none of the markers quit, reset, home, show_help.
C19_OnlyControlCommands ==
  [][ TurnStep =>
        /\ mode' = "exited" => cmd' \in ControlLines.quit
        /\ mode' = "menu" => cmd' \in ControlLines.home
        /\ mode' = "help" => cmd' \in ControlLines.show_help
        /\ (Len(commands') < Len(commands) \/ (tree' = NewTree /\ tree # NewTree))
           => cmd' \in ControlLines.reset
        /\ result' \in Markers
           => cmd' \in (ControlLines.quit \cup ControlLines.reset
                        \cup ControlLines.home \cup ControlLines.show_help) ]_vars

\* C19 happens: the keyword reset typed without the slash is an unknown
\* command and the tree set before is still there
C19_Witness ==
  /\ mode = "loop"
  /\ Len(log) = 2
  /\ log[1].cmd = SetLine(0, Num(5))
  /\ log[2].cmd = Chars("reset")
  /\ tree[0] = Fin(5)
  /\ commands =
       << "> s 0 5", "> reset",
          "Unknown command: 'reset'. Type '/help' for available commands." >>

\* the message of the ValueError int() raises on a token
ParseErrorSays(tok) ==
  "Invalid format: invalid literal for int() with base 10: '" \o tok
  \o "' (ensure all numbers are integers)"

\* the typed texts with an infinity token or another non-integer token:
\* what they do (error, set, add), the token the error names, and the
\* cell and the sign of the infinity stored
InfinityCases ==
  { [text |-> "s inf 1", do |-> "error", tok |-> "inf", i |-> 0, sign |-> 0],
    [text |-> "a -inf 1", do |-> "error", tok |-> "-inf", i |-> 0, sign |-> 0],
    [text |-> "q inf 2", do |-> "error", tok |-> "inf", i |-> 0, sign |-> 0],
    [text |-> "q 0 Infinity", do |-> "error", tok |-> "Infinity", i |-> 0,
     sign |-> 0],
    [text |-> "s 0 INF", do |-> "set", tok |-> "", i |-> 0, sign |-> 1],
    [text |-> "s 1 Infinity", do |-> "set", tok |-> "", i |-> 1, sign |-> 1],
    [text |-> "a 0 -INFINITY", do |-> "add", tok |-> "", i |-> 0, sign |-> -1],
    [text |-> "a 1 -Inf", do |-> "add", tok |-> "", i |-> 1, sign |-> -1],
    [text |-> "s 0 1.5", do |-> "error", tok |-> "1.5", i |-> 0, sign |-> 0],
    [text |-> "s 0 nan", do |-> "error", tok |-> "nan", i |-> 0, sign |-> 0],
    [text |-> "a 0 +inf", do |-> "error", tok |-> "+inf", i |-> 0, sign |-> 0],
    [text |-> "s 0 abc", do |-> "error", tok |-> "abc", i |-> 0, sign |-> 0] }

\* the same cases with the line as it is read
InfinityLines ==
  { [line |-> Chars(c.text), text |-> c.text, do |-> c.do, tok |-> c.tok,
     i |-> c.i, sign |-> c.sign] : c \in InfinityCases }

\* the infinity of a sign
InfOf(sign) == IF sign > 0 THEN PosInf ELSE NegInf

\* a cell after the infinity of a sign is added to it: the infinity, unless
\* the cell held the opposite infinity or nan, whose sum is nan
PlusInf(old, sign) ==
  IF old.kind = "int" \/ old = InfOf(sign) THEN InfOf(sign) ELSE NaN

\* C20: an infinity token as the index of set/add or as a bound of query
\* gives the parse error that names the token and leaves the tree
\* unchanged; as the value of set, in any letter case, it stores the
\* infinity of its sign, and as the value of add it adds it; any other
\* value token that is no integer gives the parse error.
C20_InfinityTokens ==
  [][ \A c \in InfinityLines :
        (TurnStep /\ cmd' = c.line) =>
          CASE c.do = "error" ->
                 /\ result' = Text(ParseErrorSays(c.tok))
                 /\ tree' = tree
                 /\ commands' = commands \o <<"> " \o c.text, ParseErrorSays(c.tok)>>
            [] c.do = "set" ->
                 /\ result' = None
                 /\ tree' = [tree EXCEPT ![c.i] = InfOf(c.sign)]
            [] c.do = "add" ->
                 /\ result' = None
                 /\ tree' = [tree EXCEPT ![c.i] = PlusInf(tree[c.i], c.sign)] ]_vars

\* C20 happens: cell 0 holds inf set by the token INF, and inf typed as the
\* index is refused with the tree unchanged
C20_Witness ==
  /\ mode = "loop"
  /\ Len(log) = 2
  /\ log[1].cmd = Chars("s 0 INF")
  /\ log[2].cmd = Chars("s inf 1")
  /\ tree = [NewTree EXCEPT ![0] = PosInf]
  /\ result = Text(ParseErrorSays("inf"))

\* the rows of the pyramid drawn at the prompt, without the index row
PyramidRows ==
  LET rows == draw_tree_structure(tree, tree_type, adapter)
  IN SubSeq(rows, 1, Len(rows) - 1)

\* C15: whatever the tree holds, every border, padding and content row of
\* the pyramid drawn at the prompt has the same visible width, 16 leaf
\* cells of LEAF_CELL_WIDTH columns and the closing bar, and every content
\* cell of level L fills LEAF_CELL_WIDTH * 2^(4-L) columns.
C15_RowsSameWidth ==
  mode = "loop" =>
    /\ \A i \in 1..Len(PyramidRows) :
         Len(PyramidRows[i]) = TreeSize * LEAF_CELL_WIDTH + 1
    /\ \A L \in 0..4 : \A p \in 0..(levels[L + 1] - 1) :
         Len(content_cell(L, get_tree_value(tree, tree_type, adapter, L, p).text))
           = LEAF_CELL_WIDTH * 2 ^ (4 - L)

\* the internal cells of the pyramid
InternalCells == {[L |-> L, p |-> p] : L \in 0..3, p \in 0..7} \ 
                 {c \in [L : 0..3, p : 0..7] : c.p >= 2 ^ c.L}

\* the sub-range of a cell: [p * (16 / 2^L), (p + 1) * (16 / 2^L))
SubRange(c) ==
  [start |-> c.p * (TreeSize \div 2 ^ c.L),
   end |-> (c.p + 1) * (TreeSize \div 2 ^ c.L)]

\* the node index and the sub-range of every internal cell: node
\* 2^L - 1 + p; the fallback queries SubRange; the sub-ranges of a level
\* follow one another from 0 to 16; a parent's sub-range is that of its
\* two children together
CellGeometry ==
  \A c \in InternalCells :
    /\ internal_idx(c.L, c.p) = 2 ^ c.L - 1 + c.p
    /\ fallback_range(tree, c.L, c.p) = SubRange(c)
    /\ c.p = 0 => SubRange(c).start = 0
    /\ c.p = 2 ^ c.L - 1 => SubRange(c).end = TreeSize
    /\ c.p < 2 ^ c.L - 1
       => SubRange(c).end = SubRange([L |-> c.L, p |-> c.p + 1]).start
    /\ c.L < 3
       => /\ SubRange(c).start = SubRange([L |-> c.L + 1, p |-> 2 * c.p]).start
          /\ SubRange([L |-> c.L + 1, p |-> 2 * c.p]).end
               = SubRange([L |-> c.L + 1, p |-> 2 * c.p + 1]).start
          /\ SubRange(c).end = SubRange([L |-> c.L + 1, p |-> 2 * c.p + 1]).end

\* the text of every internal cell is the same by introspection and by the
\* fallback
SameBothWays ==
  \A c \in InternalCells :
    introspection(tree, tree_type, c.L, c.p) = fallback(tree, tree_type, c.L, c.p)

\* no element of the tree is nan
NoNaN == \A i \in DOMAIN tree : tree[i] # NaN

C16_RenderNeverFails ==
  /\ (mode = "exited" /\ event.kind = "line") => result = Text("quit")
  /\ (mode = "loop" /\ adapter.fault # NoFault)
     => get_tree_value(tree, tree_type, adapter, adapter.fault.level,
                       adapter.fault.pos) = Shown("?")

\* the row of the panel that shows an entry
EntryRow(entry) ==
  "| " \o PadRight(Truncate(ReplaceTabs(entry), EntryWidth), EntryWidth) \o " |"

\* the row with the prompt marker, and the blank row
PromptRow == "| >" \o Rep(" ", EntryWidth) \o " |"

BlankRow == "|" \o Rep(" ", EntryWidth + 2) \o "|"

====
